---- MODULE Spec2Model ----
(***************************************************************************)
(* Payroll reconciliation engine of FPuantaj: the payroll service, the     *)
(* overtime ledger, the calculation service and the employee edits they    *)
(* read, as a state machine over the relational store.                     *)
(*                                                                         *)
(* Every request runs in a request slot.  A handler is split at its awaits *)
(* (the store calls), which are the only points where another request can  *)
(* run.  Under Spec the requests are served one at a time, each from its   *)
(* arrival to its response; under SpecConc two requests are in flight and  *)
(* their store calls interleave.                                           *)
(*                                                                         *)
(* Money is a JavaScript double in the code.  The model keeps it as an     *)
(* exact rational in units of 1/OFFICIAL_WORKING_DAYS_BASE of a lira, so   *)
(* that salary / workingDays * daysWorked and                              *)
(* FIXED_OFFICIAL_PAYMENT / OFFICIAL_WORKING_DAYS_BASE * daysWorked are    *)
(* integers for the working-day bases used here; floating-point rounding   *)
(* is not modelled.                                                        *)
(***************************************************************************)
EXTENDS Integers, Sequences, FiniteSets, TLC

VARIABLES
    employee,       \* Employee table: id -> row
    payrollEntry,   \* PayrollEntry table: set of rows
    overtimeEntry,  \* OvertimeEntry table: set of rows
    nextId,         \* source of fresh row ids (uuid() in the store)
    pc,             \* per request slot: the await the handler is at
    loc,            \* per request slot: the handler's local variables
    resp,           \* per request slot: the response being sent
    ops,            \* number of payroll and overtime requests (batch items) started so far
    edits,          \* number of employee edits so far
    overtimeEdited, \* history: a payroll update has supplied overtime50 or overtime100
    auditLog        \* AuditLog table: the records created so far, in order

vars == <<employee, payrollEntry, overtimeEntry, nextId, pc, loc, resp, ops, edits, overtimeEdited,
          auditLog>>

storeVars == <<employee, payrollEntry, overtimeEntry, nextId>>

-----------------------------------------------------------------------------
(* Bounds *)

MaxOps == 3         \* requests (and batch items) started in one behaviour
MaxBatchLen == 2    \* items in one batch request
MaxFields == 1      \* fields supplied in one partial update
MaxEdits == 1       \* employee edits in one behaviour

-----------------------------------------------------------------------------
(* Program constants *)

FIXED_OFFICIAL_PAYMENT == 28075
OFFICIAL_WORKING_DAYS_BASE == 30

\* Money unit: 1 lira = Scale units.
Scale == OFFICIAL_WORKING_DAYS_BASE

Lira(x) == x * Scale

Max(a, b) == IF a >= b THEN a ELSE b
Min(a, b) == IF a <= b THEN a ELSE b

-----------------------------------------------------------------------------
(* Input domains *)

Procs == {"r1", "r2"}
SeqProcs == {"r1"}

EmployeeIds == {"e1", "e2"}
GhostEmployee == "e0"                  \* an id with no Employee row
EmployeeIdInputs == EmployeeIds \cup {GhostEmployee}

Null == << >>

\* A period is <<month, year>>.
ValidPeriods == {<<6, 2024>>, <<7, 2024>>}
PeriodInputs == ValidPeriods \cup {<<0, 2024>>, <<13, 2024>>, <<6, 1999>>, <<6, 2101>>}

\* endDate as <<month, year>> of the stored date, or Null.
EndDates == {<<12, 2023>>}
Salaries == {24000}
WorkingDaysValues == {15}

PayrollFields == {"daysWorked", "advance", "officialAdvance", "overtime50",
                  "overtime100", "officialPayment", "cashPayment", "sortOrder"}

\* values a caller supplies that pass updatePayrollSchema
FieldInputs(f) ==
    CASE f = "daysWorked"      -> {0, 15}
      [] f = "advance"         -> {Lira(1000), Lira(5000)}
      [] f = "officialAdvance" -> {Lira(1000)}
      [] f = "overtime50"      -> {0, Lira(300)}
      [] f = "overtime100"     -> {0}
      [] f = "officialPayment" -> {Lira(7)}
      [] f = "cashPayment"     -> {Lira(7)}
      [] f = "sortOrder"       -> {1}

\* values a caller supplies that updatePayrollSchema rejects
BadFieldInputs(f) == IF f = "daysWorked" THEN {-1, 32} ELSE {-1}

AllFieldInputs == UNION {FieldInputs(f) \cup BadFieldInputs(f) : f \in PayrollFields}

\* Partial updates: a function from the supplied fields to their values.
PatchesOver(S) == {p \in [S -> AllFieldInputs] : \A f \in S : p[f] \in FieldInputs(f)}

GoodPatches ==
    UNION {PatchesOver(S) : S \in {T \in SUBSET PayrollFields : Cardinality(T) <= MaxFields}}

\* one rejected value
BadPatches ==
    UNION {{[g \in {f} |-> v] : v \in BadFieldInputs(f)} : f \in PayrollFields \ {"cashPayment", "sortOrder"}}

\* a changed field together with a caller's own officialPayment or cashPayment
SplitOverridePatches ==
    {[daysWorked |-> 15, officialPayment |-> Lira(7)],
     [advance |-> Lira(1000), cashPayment |-> Lira(7)]}

PayrollPatches == GoodPatches \cup SplitOverridePatches \cup BadPatches

Has(input, f) == f \in DOMAIN input

\* a ?? b for an optional field of a request body
Given(input, f, default) == IF Has(input, f) THEN input[f] ELSE default

OvertimeTypes == {"OVERTIME_50", "OVERTIME_100"}

\* createOvertimeEntry request bodies (multiplier, hours, entryDate and description
\* are stored with the entry and read by nothing else)
OvertimeInputs ==
    {[employeeId |-> e, month |-> period[1], year |-> period[2], type |-> ta[1], amount |-> ta[2]] :
        e \in EmployeeIds, period \in ValidPeriods,
        ta \in {<<"OVERTIME_50", Lira(300)>>, <<"OVERTIME_50", Lira(500)>>, <<"OVERTIME_100", Lira(300)>>}}
    \cup {[employeeId |-> GhostEmployee, month |-> 6, year |-> 2024, type |-> "OVERTIME_50",
           amount |-> Lira(300)],
          [employeeId |-> "e1", month |-> 6, year |-> 2024, type |-> "OVERTIME_50", amount |-> 0],
          [employeeId |-> "e1", month |-> 13, year |-> 2024, type |-> "OVERTIME_50", amount |-> Lira(300)],
          [employeeId |-> "e1", month |-> 6, year |-> 1999, type |-> "OVERTIME_100", amount |-> Lira(300)]}

\* batchUpdatePayroll request bodies: every single item, and the pairs of a sample
BatchItems ==
    {[employeeId |-> e, month |-> period[1], year |-> period[2], fields |-> f] :
        e \in {"e1"}, period \in {<<6, 2024>>}, f \in GoodPatches \cup SplitOverridePatches}
    \cup {[employeeId |-> "e2", month |-> 6, year |-> 2024, fields |-> f] :
            f \in {[daysWorked |-> 15], [advance |-> Lira(1000)],
                   [officialAdvance |-> Lira(1000)], [overtime50 |-> Lira(300)]}}
    \cup {[employeeId |-> GhostEmployee, month |-> 6, year |-> 2024, fields |-> [daysWorked |-> 15]],
          [employeeId |-> "e1", month |-> 13, year |-> 2024, fields |-> [daysWorked |-> 15]],
          [employeeId |-> "e1", month |-> 6, year |-> 2024, fields |-> [daysWorked |-> 32]],
          [employeeId |-> "e1", month |-> 6, year |-> 2024, fields |-> [overtime50 |-> -1]]}

BatchPairItems ==
    {[employeeId |-> "e1", month |-> 6, year |-> 2024, fields |-> [daysWorked |-> 15]],
     [employeeId |-> "e2", month |-> 6, year |-> 2024, fields |-> [overtime50 |-> Lira(300)]],
     [employeeId |-> GhostEmployee, month |-> 6, year |-> 2024, fields |-> [daysWorked |-> 15]],
     [employeeId |-> "e1", month |-> 6, year |-> 2024, fields |-> [advance |-> -1]]}

BatchBodies ==
    {b \in {<< >>} \cup {<<i>> : i \in BatchItems} \cup {<<i, j>> : i, j \in BatchPairItems} :
        Len(b) <= MaxBatchLen}

-----------------------------------------------------------------------------
(* Calculation service *)

\* salary / workingDays, exact for the working-day bases of the model
calculateDailyWage(salary, workingDays) == (salary * Scale) \div workingDays

calculateEarnedSalary(dailyWage, daysWorked) == dailyWage * daysWorked

\* a total from which the channel payments are subtracted as well
calculateTotalReceivableMinusPayments(earnedSalary, overtime50, overtime100, advance, officialPayment, cashPayment) ==
    earnedSalary + overtime50 + overtime100 - advance - officialPayment - cashPayment

calculateTotalReceivable(earnedSalary, overtime50, overtime100, advance, officialPayment, cashPayment) ==
    earnedSalary + overtime50 + overtime100 - advance

\* calculatePayroll throws (a plain Error) on these inputs
calculatePayrollThrows(input) ==
    \/ input.salary < 0
    \/ input.workingDays <= 0
    \/ input.daysWorked < 0
    \/ input.advance < 0
    \/ input.overtime50 < 0
    \/ input.overtime100 < 0
    \/ input.officialPayment < 0
    \/ input.cashPayment < 0

calculatePayroll(input) ==
    LET dailyWage == calculateDailyWage(input.salary, input.workingDays)
        earnedSalary == calculateEarnedSalary(dailyWage, input.daysWorked)
    IN  [dailyWage |-> dailyWage,
         earnedSalary |-> earnedSalary,
         totalReceivable |-> calculateTotalReceivable(earnedSalary, input.overtime50,
                                 input.overtime100, input.advance,
                                 input.officialPayment, input.cashPayment)]

-----------------------------------------------------------------------------
(* Payroll service: pure helpers *)

calculatePayrollInput(salary, workingDays, entry) ==
    [salary |-> salary,
     workingDays |-> workingDays,
     daysWorked |-> entry.daysWorked,
     advance |-> entry.advance + entry.officialAdvance,
     overtime50 |-> entry.overtime50,
     overtime100 |-> entry.overtime100,
     officialPayment |-> entry.officialPayment,
     cashPayment |-> entry.cashPayment]

calculatePayrollFields(salary, workingDays, entry) ==
    calculatePayroll(calculatePayrollInput(salary, workingDays, entry))

\* earned: Math.max(0, salary / workingDays * daysWorked)
Earned(salary, workingDays, daysWorked) ==
    Max(0, calculateDailyWage(salary, workingDays) * daysWorked)

\* officialDaily * daysWorked, officialDaily = FIXED_OFFICIAL_PAYMENT / OFFICIAL_WORKING_DAYS_BASE
OfficialCap(daysWorked) ==
    (FIXED_OFFICIAL_PAYMENT * Scale * daysWorked) \div OFFICIAL_WORKING_DAYS_BASE

BaseOfficial(isInsured, salary, workingDays, daysWorked) ==
    IF isInsured
    THEN Min(Earned(salary, workingDays, daysWorked), Max(0, OfficialCap(daysWorked)))
    ELSE 0

BaseCash(isInsured, salary, workingDays, daysWorked, overtime50, overtime100) ==
    Max(0, Earned(salary, workingDays, daysWorked)
           - BaseOfficial(isInsured, salary, workingDays, daysWorked))
    + Max(0, overtime50) + Max(0, overtime100)

\* a split whose official base is not capped by officialDaily * daysWorked
calculateOfficialAndCashUncapped(isInsured, salary, workingDays, daysWorked, overtime50, overtime100, cashAdvance, officialAdvance) ==
    LET safeEarned == Max(0, calculateDailyWage(salary, workingDays) * daysWorked)
        cashBase == (IF isInsured THEN 0 ELSE safeEarned) + Max(0, overtime50) + Max(0, overtime100)
    IN  [officialPayment |-> IF isInsured
                             THEN Max(0, safeEarned - Min(safeEarned, Max(0, officialAdvance)))
                             ELSE 0,
         cashPayment |-> Max(0, cashBase - Min(cashBase, Max(0, cashAdvance)))]

calculateOfficialAndCash(isInsured, salary, workingDays, daysWorked, overtime50, overtime100, cashAdvance, officialAdvance) ==
    LET safeEarned == Max(0, calculateDailyWage(salary, workingDays) * daysWorked)
        safeOvertime50 == Max(0, overtime50)
        safeOvertime100 == Max(0, overtime100)
        safeCashAdvance == Max(0, cashAdvance)
        safeOfficialAdvance == Max(0, officialAdvance)
    IN  IF ~isInsured
        THEN LET cashBase == safeEarned + safeOvertime50 + safeOvertime100
             IN  [officialPayment |-> 0,
                  cashPayment |-> Max(0, cashBase - Min(cashBase, safeCashAdvance))]
        ELSE LET officialBase == Min(safeEarned, Max(0, OfficialCap(daysWorked)))
                 cashBase == Max(0, safeEarned - officialBase) + safeOvertime50 + safeOvertime100
             IN  [officialPayment |-> Max(0, officialBase - Min(officialBase, safeOfficialAdvance)),
                  cashPayment |-> Max(0, cashBase - Min(cashBase, safeCashAdvance))]

SplitOf(entry, emp) ==
    calculateOfficialAndCash(emp.isInsured, emp.salary, emp.workingDays, entry.daysWorked,
                             entry.overtime50, entry.overtime100, entry.advance,
                             entry.officialAdvance)

transformThrows(entry, emp) ==
    calculatePayrollThrows(calculatePayrollInput(emp.salary, emp.workingDays, entry))

\* a view that returns the officialPayment and cashPayment columns as stored
transformToResponseStoredSplit(entry, emp) ==
    LET calculations == calculatePayrollFields(emp.salary, emp.workingDays, entry)
    IN  [id |-> entry.id,
         employeeId |-> entry.employeeId,
         month |-> entry.month,
         year |-> entry.year,
         sortOrder |-> entry.sortOrder,
         daysWorked |-> entry.daysWorked,
         advance |-> entry.advance,
         officialAdvance |-> entry.officialAdvance,
         overtime50 |-> entry.overtime50,
         overtime100 |-> entry.overtime100,
         officialPayment |-> entry.officialPayment,
         cashPayment |-> entry.cashPayment,
         dailyWage |-> calculations.dailyWage,
         earnedSalary |-> calculations.earnedSalary,
         totalReceivable |-> calculations.totalReceivable,
         isInsured |-> emp.isInsured]

\* The view of a stored entry joined with its employee row.
transformToResponse(entry, emp) ==
    LET split == SplitOf(entry, emp)
        calculations == calculatePayrollFields(emp.salary, emp.workingDays, entry)
    IN  [id |-> entry.id,
         employeeId |-> entry.employeeId,
         month |-> entry.month,
         year |-> entry.year,
         sortOrder |-> entry.sortOrder,
         daysWorked |-> entry.daysWorked,
         advance |-> entry.advance,
         officialAdvance |-> entry.officialAdvance,
         overtime50 |-> entry.overtime50,
         overtime100 |-> entry.overtime100,
         officialPayment |-> split.officialPayment,
         cashPayment |-> split.cashPayment,
         dailyWage |-> calculations.dailyWage,
         earnedSalary |-> calculations.earnedSalary,
         totalReceivable |-> calculations.totalReceivable,
         isInsured |-> emp.isInsured]

\* Employee should appear if: no endDate OR endDate is in the selected month or later
ActiveFor(emp, month, year) ==
    \/ emp.endDate = Null
    \/ LET endMonth == emp.endDate[1]
           endYear == emp.endDate[2]
       IN  \/ endYear > year
           \/ endYear = year /\ endMonth >= month

-----------------------------------------------------------------------------
(* Store helpers *)

EntriesOf(table, employeeId, month, year) ==
    {r \in table : r.employeeId = employeeId /\ r.month = month /\ r.year = year}

EntriesOfPeriod(table, month, year) == {r \in table : r.month = month /\ r.year = year}

EntryById(table, id) == {r \in table : r.id = id}

\* CREATE UNIQUE INDEX "PayrollEntry_employeeId_month_year_key"
UniqueKeyFree(table, employeeId, month, year) == EntriesOf(table, employeeId, month, year) = {}

\* an orderBy with the two keys swapped: fullName first, then sortOrder
BeforeByName(a, b, emps) ==
    \/ emps[a.employeeId].fullName < emps[b.employeeId].fullName
    \/ emps[a.employeeId].fullName = emps[b.employeeId].fullName /\ a.sortOrder < b.sortOrder
    \/ /\ a.sortOrder = b.sortOrder
       /\ emps[a.employeeId].fullName = emps[b.employeeId].fullName
       /\ a.id < b.id

\* orderBy [{sortOrder: 'asc'}, {employee: {fullName: 'asc'}}]; a fullName is
\* modelled by its rank in the collation order, the row id breaks the remaining ties.
Before(a, b, emps) ==
    \/ a.sortOrder < b.sortOrder
    \/ a.sortOrder = b.sortOrder /\ emps[a.employeeId].fullName < emps[b.employeeId].fullName
    \/ /\ a.sortOrder = b.sortOrder
       /\ emps[a.employeeId].fullName = emps[b.employeeId].fullName
       /\ a.id < b.id

RECURSIVE OrderedRows(_, _)
OrderedRows(rows, emps) ==
    IF rows = {} THEN << >>
    ELSE LET first == CHOOSE r \in rows : \A s \in rows \ {r} : Before(r, s, emps)
         IN  <<first>> \o OrderedRows(rows \ {first}, emps)

\* prisma update: the fields of data replace those of the row
ApplyData(row, data) == [f \in DOMAIN row |-> IF f \in DOMAIN data THEN data[f] ELSE row[f]]

WithId(row, id) == [f \in DOMAIN row \cup {"id"} |-> IF f = "id" THEN id ELSE row[f]]

-----------------------------------------------------------------------------
(* A request in progress: the store it works on, the await it is at, its local *)
(* variables and its response.  Every handler below is a function from such a  *)
(* context to the context after its next store call.                           *)

Store ==
    [employee |-> employee, payrollEntry |-> payrollEntry, overtimeEntry |-> overtimeEntry,
     nextId |-> nextId, overtimeEdited |-> overtimeEdited]

NoLoc ==
    [op |-> "none", month |-> 0, year |-> 0, emps |-> Null, existing |-> {},
     id |-> 0, input |-> Null, items |-> << >>, idx |-> 0,
     emp |-> Null, entry |-> {}, pre |-> Null, oldData |-> {}]

NoResp == [code |-> "NONE", status |-> 0, views |-> << >>]

Ok(status, views) == [code |-> "OK", status |-> status, views |-> views]

\* AppError(status, code, ...) as rendered by errorHandler
Fail(status, code) == [code |-> code, status |-> status, views |-> << >>]

\* any other thrown error as rendered by errorHandler
InternalError == Fail(500, "INTERNAL_ERROR")

\* a request arrives: op is its handler; pre, the store at arrival, is read by no handler
Arrive(st, op) ==
    [st |-> st, pc |-> "start", resp |-> NoResp,
     loc |-> [NoLoc EXCEPT !.op = op,
                           !.pre = st]]

\* the handler ends with response r
Finish(c, r) == [c EXCEPT !.pc = "done", !.resp = r]

\* the handler moves to its next await
Goto(c, label) == [c EXCEPT !.pc = label]

-----------------------------------------------------------------------------
(* Employee service *)

\* Partial updates of an employee (updateEmployeeSchema); fullName and workArea
\* are never edited here.
EmployeePatches ==
    {[isInsured |-> FALSE]}
    \cup {[endDate |-> d] : d \in EndDates}
    \cup {[salary |-> x] : x \in Salaries}
    \cup {[workingDays |-> n] : n \in WorkingDaysValues}

\* PUT /api/employees/:id requests
EmployeeEdits ==
    ({"e1"} \X EmployeePatches) \cup {<<GhostEmployee, [isInsured |-> FALSE]>>}

updateEmployeeRow(row, input) ==
    [fullName |-> row.fullName,
     isInsured |-> Given(input, "isInsured", row.isInsured),
     endDate |-> Given(input, "endDate", row.endDate),
     salary |-> Given(input, "salary", row.salary),
     workingDays |-> Given(input, "workingDays", row.workingDays)]

updateEmployeeCall(st, id, input) ==
    LET c == [Arrive(st, "updateEmployee") EXCEPT !.loc.input = input]
    IN  IF id \in DOMAIN st.employee
        THEN Finish([c EXCEPT !.st.employee[id] = updateEmployeeRow(st.employee[id], input)],
                    Ok(200, << >>))
        ELSE Finish(c, Fail(404, "EMPLOYEE_NOT_FOUND"))

-----------------------------------------------------------------------------
(* Payroll service: getPayrollByMonth *)

ActiveEmployeeIds(emps, month, year) ==
    {e \in DOMAIN emps : ActiveFor(emps[e], month, year)}

NewEntry(id, employeeId, month, year, daysWorked) ==
    [id |-> id, employeeId |-> employeeId, month |-> month, year |-> year,
     sortOrder |-> 0, daysWorked |-> daysWorked, advance |-> 0, officialAdvance |-> 0,
     overtime50 |-> 0, overtime100 |-> 0, officialPayment |-> 0, cashPayment |-> 0]

\* rows of entriesToCreate: one per active employee without an existing entry,
\* in the order of allEmployees (fullName asc); ids are handed out in that order
EntriesToCreate(emps, existing, month, year, firstId) ==
    LET missing == ActiveEmployeeIds(emps, month, year) \ existing
        rank(e) == Cardinality({d \in missing : emps[d].fullName < emps[e].fullName})
    IN  {NewEntry(firstId + rank(e), e, month, year, emps[e].workingDays) : e \in missing}

\* a createMany on a table without the unique index: never rejected
CreateManyUnchecked(table, rows) == FALSE

\* prisma.payrollEntry.createMany: one INSERT, rejected as a whole by the unique index
CreateManyConflicts(table, rows) ==
    \E r \in rows : ~UniqueKeyFree(table, r.employeeId, r.month, r.year)

\* the final findMany without the filter on activeEmployeeIds
PeriodRowsUnfiltered(table, emps, month, year) == EntriesOfPeriod(table, month, year)

\* the final findMany and the filter on activeEmployeeIds
PeriodRows(table, emps, month, year) ==
    {r \in EntriesOfPeriod(table, month, year) :
        r.employeeId \in ActiveEmployeeIds(emps, month, year)}

\* a getPayrollByMonth without the checks of month and year
getPayrollByMonthCallUnvalidated(st, month, year) ==
    LET c == [Arrive(st, "getPayrollByMonth") EXCEPT !.loc.month = month, !.loc.year = year]
    IN  Goto([c EXCEPT !.loc.emps = st.employee], "gpm_existing")

\* validation and prisma.employee.findMany
getPayrollByMonthCall(st, month, year) ==
    LET c == [Arrive(st, "getPayrollByMonth") EXCEPT !.loc.month = month, !.loc.year = year]
    IN  IF month < 1 \/ month > 12
        THEN Finish(c, Fail(400, "INVALID_MONTH"))
        ELSE IF year < 2000 \/ year > 2100
        THEN Finish(c, Fail(400, "INVALID_YEAR"))
        ELSE Goto([c EXCEPT !.loc.emps = st.employee], "gpm_existing")

\* prisma.payrollEntry.findMany({where: {month, year}})
gpmFindExisting(c) ==
    LET existing == {r.employeeId : r \in EntriesOfPeriod(c.st.payrollEntry, c.loc.month, c.loc.year)}
        d == [c EXCEPT !.loc.existing = existing]
    IN  IF ActiveEmployeeIds(c.loc.emps, c.loc.month, c.loc.year) \ existing = {}
        THEN Goto(d, "gpm_final")
        ELSE Goto(d, "gpm_create")

\* prisma.payrollEntry.createMany
gpmCreateMany(c) ==
    LET rows == EntriesToCreate(c.loc.emps, c.loc.existing, c.loc.month, c.loc.year, c.st.nextId)
    IN  IF CreateManyConflicts(c.st.payrollEntry, rows)
        THEN Finish(c, InternalError)
        ELSE Goto([c EXCEPT !.st.payrollEntry = @ \cup rows,
                            !.st.nextId = @ + Cardinality(rows)], "gpm_final")

\* the final findMany (with the employee rows as they are now), the filter, the map
gpmFinal(c) ==
    LET rows == OrderedRows(PeriodRows(c.st.payrollEntry, c.loc.emps, c.loc.month, c.loc.year),
                            c.st.employee)
    IN  IF \E i \in 1..Len(rows) : transformThrows(rows[i], c.st.employee[rows[i].employeeId])
        THEN Finish(c, InternalError)
        ELSE Finish(c, Ok(200, [i \in 1..Len(rows) |->
                                   transformToResponse(rows[i], c.st.employee[rows[i].employeeId])]))

-----------------------------------------------------------------------------
(* Payroll service: getPayrollById *)

getPayrollByIdCall(st, id) ==
    LET c == [Arrive(st, "getPayrollById") EXCEPT !.loc.id = id]
    IN  IF EntryById(st.payrollEntry, id) = {}
        THEN Finish(c, Fail(404, "PAYROLL_NOT_FOUND"))
        ELSE LET entry == CHOOSE r \in st.payrollEntry : r.id = id
             IN  IF transformThrows(entry, st.employee[entry.employeeId])
                 THEN Finish(c, InternalError)
                 ELSE Finish(c, Ok(200, <<transformToResponse(entry, st.employee[entry.employeeId])>>))

-----------------------------------------------------------------------------
(* Payroll service: updatePayroll *)

\* updatePayrollSchema
FieldValid(f, v) ==
    CASE f = "daysWorked" -> v >= 0 /\ v <= 31
      [] OTHER            -> v >= 0

validatePayrollInput(input) == \A f \in DOMAIN input : FieldValid(f, input[f])

\* an updateData whose advances are floored at 0 but not capped by the bases
updatePayrollDataUncapped(existingEntry, emp, input) ==
    LET nextDaysWorked == Given(input, "daysWorked", existingEntry.daysWorked)
        nextOvertime50 == Given(input, "overtime50", existingEntry.overtime50)
        nextOvertime100 == Given(input, "overtime100", existingEntry.overtime100)
        nextCashAdvance == Max(0, Given(input, "advance", existingEntry.advance))
        nextOfficialAdvance ==
            IF emp.isInsured
            THEN Max(0, Given(input, "officialAdvance", existingEntry.officialAdvance))
            ELSE 0
        split == calculateOfficialAndCash(emp.isInsured, emp.salary, emp.workingDays,
                                          nextDaysWorked, nextOvertime50, nextOvertime100,
                                          nextCashAdvance, nextOfficialAdvance)
        computed == [advance |-> nextCashAdvance,
                     officialAdvance |-> nextOfficialAdvance,
                     officialPayment |-> split.officialPayment,
                     cashPayment |-> split.cashPayment]
    IN  [f \in DOMAIN input \cup DOMAIN computed |->
            IF f \in DOMAIN computed THEN computed[f] ELSE input[f]]

\* an updateData in which a supplied officialPayment or cashPayment survives
updatePayrollDataKeepsSupplied(existingEntry, emp, input) ==
    LET nextDaysWorked == Given(input, "daysWorked", existingEntry.daysWorked)
        nextOvertime50 == Given(input, "overtime50", existingEntry.overtime50)
        nextOvertime100 == Given(input, "overtime100", existingEntry.overtime100)
        baseOfficial == BaseOfficial(emp.isInsured, emp.salary, emp.workingDays, nextDaysWorked)
        baseCash == BaseCash(emp.isInsured, emp.salary, emp.workingDays, nextDaysWorked,
                             nextOvertime50, nextOvertime100)
        nextCashAdvance == Min(Max(0, Given(input, "advance", existingEntry.advance)), baseCash)
        nextOfficialAdvance ==
            IF emp.isInsured
            THEN Min(Max(0, Given(input, "officialAdvance", existingEntry.officialAdvance)),
                     baseOfficial)
            ELSE 0
        split == calculateOfficialAndCash(emp.isInsured, emp.salary, emp.workingDays,
                                          nextDaysWorked, nextOvertime50, nextOvertime100,
                                          nextCashAdvance, nextOfficialAdvance)
        computed == [advance |-> nextCashAdvance,
                     officialAdvance |-> nextOfficialAdvance,
                     officialPayment |-> Given(input, "officialPayment", split.officialPayment),
                     cashPayment |-> Given(input, "cashPayment", split.cashPayment)]
    IN  [f \in DOMAIN input \cup DOMAIN computed |->
            IF f \in DOMAIN computed THEN computed[f] ELSE input[f]]

\* updateData as built by updatePayroll from the entry and employee it read
updatePayrollData(existingEntry, emp, input) ==
    LET nextDaysWorked == Given(input, "daysWorked", existingEntry.daysWorked)
        nextCashAdvanceRaw == Given(input, "advance", existingEntry.advance)
        nextOfficialAdvanceRaw == Given(input, "officialAdvance", existingEntry.officialAdvance)
        nextOvertime50 == Given(input, "overtime50", existingEntry.overtime50)
        nextOvertime100 == Given(input, "overtime100", existingEntry.overtime100)
        baseOfficial == BaseOfficial(emp.isInsured, emp.salary, emp.workingDays, nextDaysWorked)
        baseCash == BaseCash(emp.isInsured, emp.salary, emp.workingDays, nextDaysWorked,
                             nextOvertime50, nextOvertime100)
        nextCashAdvance == Min(Max(0, nextCashAdvanceRaw), baseCash)
        nextOfficialAdvance == IF emp.isInsured
                               THEN Min(Max(0, nextOfficialAdvanceRaw), baseOfficial)
                               ELSE 0
        split == calculateOfficialAndCash(emp.isInsured, emp.salary, emp.workingDays,
                                          nextDaysWorked, nextOvertime50, nextOvertime100,
                                          nextCashAdvance, nextOfficialAdvance)
        computed == [advance |-> nextCashAdvance,
                     officialAdvance |-> nextOfficialAdvance,
                     officialPayment |-> split.officialPayment,
                     cashPayment |-> split.cashPayment]
    IN  [f \in DOMAIN input \cup DOMAIN computed |->
            IF f \in DOMAIN computed THEN computed[f] ELSE input[f]]

\* PUT /api/payroll/:id: validatePayrollInput, then updatePayroll up to its findUnique
updatePayrollCall(st, id, input) ==
    LET c == [Arrive(st, "updatePayroll") EXCEPT !.loc.id = id, !.loc.input = input]
    IN  IF ~validatePayrollInput(input)
        THEN Finish(c, Fail(400, "VALIDATION_ERROR"))
        ELSE IF EntryById(st.payrollEntry, id) = {}
        THEN Finish(c, Fail(404, "PAYROLL_NOT_FOUND"))
        ELSE LET existingEntry == CHOOSE r \in st.payrollEntry : r.id = id
             IN  Goto([c EXCEPT !.loc.entry = {existingEntry},
                                !.loc.emp = st.employee[existingEntry.employeeId]], "upd_write")

\* an update that answers with the new view but does not write the row
updWriteNotPersisted(c) ==
    LET existingEntry == CHOOSE r \in c.loc.entry : TRUE
        current == CHOOSE r \in c.st.payrollEntry : r.id = c.loc.id
        updatedEntry == ApplyData(current, updatePayrollData(existingEntry, c.loc.emp, c.loc.input))
        emp == c.st.employee[updatedEntry.employeeId]
    IN  IF transformThrows(updatedEntry, emp)
        THEN Finish(c, InternalError)
        ELSE Finish(c, Ok(200, <<transformToResponse(updatedEntry, emp)>>))

\* prisma.payrollEntry.update and the response
updWrite(c) ==
    LET existingEntry == CHOOSE r \in c.loc.entry : TRUE
        current == CHOOSE r \in c.st.payrollEntry : r.id = c.loc.id
        updatedEntry == ApplyData(current, updatePayrollData(existingEntry, c.loc.emp, c.loc.input))
        emp == c.st.employee[updatedEntry.employeeId]
        d == [c EXCEPT !.st.payrollEntry = (@ \ {current}) \cup {updatedEntry},
                       !.st.overtimeEdited = @ \/ Has(c.loc.input, "overtime50")
                                               \/ Has(c.loc.input, "overtime100")]
    IN  IF transformThrows(updatedEntry, emp)
        THEN Finish(d, InternalError)
        ELSE Finish(d, Ok(200, <<transformToResponse(updatedEntry, emp)>>))

-----------------------------------------------------------------------------
(* Payroll service: batchUpdatePayroll *)

\* batchUpdateSchema, one item
ItemValid(item) ==
    /\ item.month >= 1 /\ item.month <= 12
    /\ item.year >= 2000 /\ item.year <= 2100
    /\ validatePayrollInput(item.fields)

\* a validation that stops after the first item
validateFirstItemOnly(items) == Len(items) = 0 \/ ItemValid(items[1])

validateBatchInput(items) == \A i \in 1..Len(items) : ItemValid(items[i])

ExistingField(existing, f) == IF existing = {} THEN 0 ELSE (CHOOSE r \in existing : TRUE)[f]

shouldRecalculateSplit(entry) ==
    Has(entry.fields, "daysWorked") \/ Has(entry.fields, "advance") \/ Has(entry.fields, "officialAdvance")

\* the update and create arguments of the upsert of one batch item
batchItemData(entry, emp, existing) ==
    LET f == entry.fields
        nextDaysWorked == Given(f, "daysWorked", ExistingField(existing, "daysWorked"))
        nextOvertime50 == Given(f, "overtime50", ExistingField(existing, "overtime50"))
        nextOvertime100 == Given(f, "overtime100", ExistingField(existing, "overtime100"))
        baseOfficial == BaseOfficial(emp.isInsured, emp.salary, emp.workingDays, nextDaysWorked)
        baseCash == BaseCash(emp.isInsured, emp.salary, emp.workingDays, nextDaysWorked,
                             nextOvertime50, nextOvertime100)
        nextCashAdvance == Min(Max(0, Given(f, "advance", ExistingField(existing, "advance"))), baseCash)
        nextOfficialAdvance ==
            IF emp.isInsured
            THEN Min(Max(0, Given(f, "officialAdvance", ExistingField(existing, "officialAdvance"))),
                     baseOfficial)
            ELSE 0
        recalc == shouldRecalculateSplit(entry)
        split == calculateOfficialAndCash(emp.isInsured, emp.salary, emp.workingDays,
                                          nextDaysWorked, nextOvertime50, nextOvertime100,
                                          nextCashAdvance, nextOfficialAdvance)
        computed == [advance |-> nextCashAdvance,
                     officialAdvance |-> nextOfficialAdvance,
                     officialPayment |-> split.officialPayment,
                     cashPayment |-> split.cashPayment]
        updateFields == (DOMAIN f \ {"officialPayment", "cashPayment"})
                            \cup (IF recalc THEN {"officialPayment", "cashPayment"} ELSE {})
    IN  [update |-> [g \in updateFields |-> IF g \in DOMAIN computed THEN computed[g] ELSE f[g]],
         create |-> [employeeId |-> entry.employeeId,
                     month |-> entry.month,
                     year |-> entry.year,
                     daysWorked |-> nextDaysWorked,
                     advance |-> nextCashAdvance,
                     officialAdvance |-> nextOfficialAdvance,
                     overtime50 |-> Given(f, "overtime50", 0),
                     overtime100 |-> Given(f, "overtime100", 0),
                     officialPayment |-> IF recalc THEN split.officialPayment ELSE 0,
                     cashPayment |-> IF recalc THEN split.cashPayment ELSE 0,
                     sortOrder |-> Given(f, "sortOrder", 0)]]

\* POST /api/payroll/batch: validateBatchInput, then batchUpdatePayroll up to its loop
batchUpdatePayrollCall(st, items) ==
    LET c == [Arrive(st, "batchUpdatePayroll") EXCEPT !.loc.items = items, !.loc.idx = 1]
    IN  IF ~validateBatchInput(items)
        THEN Finish(c, Fail(400, "VALIDATION_ERROR"))
        ELSE IF Len(items) = 0
        THEN Finish(c, Ok(200, << >>))
        ELSE Goto(c, "bat_employee")

\* a loop that skips an item whose employee is missing and goes on
batEmployeeSkipsMissing(c) ==
    LET entry == c.loc.items[c.loc.idx]
    IN  IF entry.employeeId \notin DOMAIN c.st.employee
        THEN IF c.loc.idx = Len(c.loc.items)
             THEN Finish(c, Ok(200, c.resp.views))
             ELSE Goto([c EXCEPT !.loc.idx = @ + 1], "bat_employee")
        ELSE Goto([c EXCEPT !.loc.emp = c.st.employee[entry.employeeId], !.loc.entry = {}],
                  IF shouldRecalculateSplit(entry) THEN "bat_existing" ELSE "bat_upsert")

\* the loop reaches item idx: prisma.employee.findUnique
batEmployee(c) ==
    LET entry == c.loc.items[c.loc.idx]
    IN  IF entry.employeeId \notin DOMAIN c.st.employee
        THEN Finish(c, Fail(404, "EMPLOYEE_NOT_FOUND"))
        ELSE Goto([c EXCEPT !.loc.emp = c.st.employee[entry.employeeId], !.loc.entry = {}],
                  IF shouldRecalculateSplit(entry) THEN "bat_existing" ELSE "bat_upsert")

\* prisma.payrollEntry.findUnique by (employeeId, month, year)
batExisting(c) ==
    LET entry == c.loc.items[c.loc.idx]
        found == EntriesOf(c.st.payrollEntry, entry.employeeId, entry.month, entry.year)
    IN  Goto([c EXCEPT !.loc.entry = IF found = {} THEN {} ELSE {CHOOSE r \in found : TRUE}],
             "bat_upsert")

\* prisma.payrollEntry.upsert, results.push, and the next round of the loop
batUpsert(c) ==
    LET entry == c.loc.items[c.loc.idx]
        data == batchItemData(entry, c.loc.emp, c.loc.entry)
        found == EntriesOf(c.st.payrollEntry, entry.employeeId, entry.month, entry.year)
        upsertedEntry == IF found = {}
                         THEN WithId(data.create, c.st.nextId)
                         ELSE ApplyData(CHOOSE r \in found : TRUE, data.update)
        emp == c.st.employee[upsertedEntry.employeeId]
        d == [c EXCEPT !.st.payrollEntry = (@ \ found) \cup {upsertedEntry},
                       !.st.nextId = IF found = {} THEN @ + 1 ELSE @,
                       !.st.overtimeEdited = @ \/ Has(entry.fields, "overtime50")
                                               \/ Has(entry.fields, "overtime100")]
    IN  IF transformThrows(upsertedEntry, emp)
        THEN Finish(d, InternalError)
        ELSE LET results == Append(c.resp.views, transformToResponse(upsertedEntry, emp))
             IN  IF c.loc.idx = Len(c.loc.items)
                 THEN Finish(d, Ok(200, results))
                 ELSE Goto([d EXCEPT !.resp.views = results, !.loc.idx = @ + 1], "bat_employee")

-----------------------------------------------------------------------------
(* Overtime service *)

\* createOvertimeEntrySchema
validateCreateOvertimeEntryInput(input) ==
    /\ input.month >= 1 /\ input.month <= 12
    /\ input.year >= 2000 /\ input.year <= 2100
    /\ input.type \in OvertimeTypes
    /\ input.amount > 0

\* POST /api/overtime: validation, then createOvertimeEntry up to its findUnique
createOvertimeEntryCall(st, input) ==
    LET c == [Arrive(st, "createOvertimeEntry") EXCEPT !.loc.input = input]
    IN  IF ~validateCreateOvertimeEntryInput(input)
        THEN Finish(c, Fail(400, "VALIDATION_ERROR"))
        ELSE IF input.employeeId \notin DOMAIN st.employee
        THEN Finish(c, Fail(404, "EMPLOYEE_NOT_FOUND"))
        ELSE Goto([c EXCEPT !.loc.emp = st.employee[input.employeeId]], "ot_create")

\* payrollUpdateData: { overtime50: { increment } } or { overtime100: { increment } }
incrementOvertime(row, type, amount) ==
    IF type = "OVERTIME_50"
    THEN [row EXCEPT !.overtime50 = @ + amount]
    ELSE [row EXCEPT !.overtime100 = @ + amount]

\* a create argument that books the amount under both overtime types
overtimePayrollCreateBothTypes(id, input, emp) ==
    [id |-> id, employeeId |-> input.employeeId, month |-> input.month, year |-> input.year,
     sortOrder |-> 0, daysWorked |-> emp.workingDays, advance |-> 0, officialAdvance |-> 0,
     overtime50 |-> input.amount, overtime100 |-> input.amount,
     officialPayment |-> 0, cashPayment |-> 0]

\* the create argument of createOvertimeEntry's upsert
overtimePayrollCreate(id, input, emp) ==
    [id |-> id, employeeId |-> input.employeeId, month |-> input.month, year |-> input.year,
     sortOrder |-> 0, daysWorked |-> emp.workingDays, advance |-> 0, officialAdvance |-> 0,
     overtime50 |-> IF input.type = "OVERTIME_50" THEN input.amount ELSE 0,
     overtime100 |-> IF input.type = "OVERTIME_100" THEN input.amount ELSE 0,
     officialPayment |-> 0, cashPayment |-> 0]

\* the two writes of createOvertimeEntry without the payroll upsert: only the
\* overtime entry is inserted
otCreateInsertOnly(c) ==
    LET input == c.loc.input
        entry == [id |-> c.st.nextId, employeeId |-> input.employeeId, month |-> input.month,
                  year |-> input.year, type |-> input.type, amount |-> input.amount]
    IN  Finish([c EXCEPT !.st.overtimeEntry = @ \cup {entry},
                         !.st.nextId = @ + 1],
               Ok(201, <<entry>>))

\* prisma.$transaction([overtimeEntry.create, payrollEntry.upsert])
otCreate(c) ==
    LET input == c.loc.input
        entry == [id |-> c.st.nextId, employeeId |-> input.employeeId, month |-> input.month,
                  year |-> input.year, type |-> input.type, amount |-> input.amount]
        found == EntriesOf(c.st.payrollEntry, input.employeeId, input.month, input.year)
        payroll == IF found = {}
                   THEN c.st.payrollEntry \cup {overtimePayrollCreate(c.st.nextId + 1, input, c.loc.emp)}
                   ELSE (c.st.payrollEntry \ found)
                            \cup {incrementOvertime(CHOOSE r \in found : TRUE, input.type, input.amount)}
    IN  Finish([c EXCEPT !.st.overtimeEntry = @ \cup {entry},
                         !.st.payrollEntry = payroll,
                         !.st.nextId = IF found = {} THEN @ + 2 ELSE @ + 1],
               Ok(201, <<entry>>))

\* a delete route that answers 204 for an id that has no overtime entry
deleteOvertimeEntryCallIdempotent(st, id) ==
    LET c == [Arrive(st, "deleteOvertimeEntry") EXCEPT !.loc.id = id]
    IN  IF EntryById(st.overtimeEntry, id) = {}
        THEN Finish(c, Ok(204, << >>))
        ELSE Goto(c, "del_lookup")

\* DELETE /api/overtime/:id: the route's getOvertimeEntryById
deleteOvertimeEntryCall(st, id) ==
    LET c == [Arrive(st, "deleteOvertimeEntry") EXCEPT !.loc.id = id]
    IN  IF EntryById(st.overtimeEntry, id) = {}
        THEN Finish(c, Fail(404, "OVERTIME_NOT_FOUND"))
        ELSE Goto(c, "del_lookup")

\* deleteOvertimeEntry's own getOvertimeEntryById
delLookup(c) ==
    IF EntryById(c.st.overtimeEntry, c.loc.id) = {}
    THEN Finish(c, Fail(404, "OVERTIME_NOT_FOUND"))
    ELSE Goto([c EXCEPT !.loc.entry = EntryById(c.st.overtimeEntry, c.loc.id)], "del_delete")

\* a payrollUpdateData that decrements overtime50 whatever the entry's type
decrementOvertimeIgnoringType(row, type, amount) ==
    [row EXCEPT !.overtime50 = @ - amount]

\* payrollUpdateData: { overtime50: { decrement } } or { overtime100: { decrement } }
decrementOvertime(row, type, amount) ==
    IF type = "OVERTIME_50"
    THEN [row EXCEPT !.overtime50 = @ - amount]
    ELSE [row EXCEPT !.overtime100 = @ - amount]

\* the two writes of deleteOvertimeEntry outside a transaction: the decrement is
\* applied although the delete found no row
delDeleteWithoutRollback(c) ==
    LET entry == CHOOSE r \in c.loc.entry : TRUE
        found == EntriesOf(c.st.payrollEntry, entry.employeeId, entry.month, entry.year)
        d == [c EXCEPT !.st.overtimeEntry = @ \ EntryById(@, c.loc.id),
                       !.st.payrollEntry = (@ \ found)
                           \cup {decrementOvertime(r, entry.type, entry.amount) : r \in found}]
    IN  IF EntryById(c.st.overtimeEntry, c.loc.id) = {}
        THEN Finish(d, InternalError)
        ELSE Finish(d, Ok(204, << >>))

\* prisma.$transaction([overtimeEntry.delete, payrollEntry.updateMany]); the delete
\* of a row that is gone throws and the transaction is rolled back
delDelete(c) ==
    LET entry == CHOOSE r \in c.loc.entry : TRUE
        found == EntriesOf(c.st.payrollEntry, entry.employeeId, entry.month, entry.year)
    IN  IF EntryById(c.st.overtimeEntry, c.loc.id) = {}
        THEN Finish(c, InternalError)
        ELSE Finish([c EXCEPT !.st.overtimeEntry = @ \ EntryById(@, c.loc.id),
                              !.st.payrollEntry = (@ \ found)
                                  \cup {decrementOvertime(r, entry.type, entry.amount) : r \in found}],
                    Ok(204, << >>))

-----------------------------------------------------------------------------
(* Running a handler *)

\* the handler's next store call
HandlerStep(c) ==
    CASE c.pc = "gpm_existing" -> gpmFindExisting(c)
      [] c.pc = "gpm_create"   -> gpmCreateMany(c)
      [] c.pc = "gpm_final"    -> gpmFinal(c)
      [] c.pc = "upd_write"    -> updWrite(c)
      [] c.pc = "bat_employee" -> batEmployee(c)
      [] c.pc = "bat_existing" -> batExisting(c)
      [] c.pc = "bat_upsert"   -> batUpsert(c)
      [] c.pc = "ot_create"    -> otCreate(c)
      [] c.pc = "del_lookup"   -> delLookup(c)
      [] c.pc = "del_delete"   -> delDelete(c)

\* the handler from where it is to its response, with no other request in between
RECURSIVE RunHandler(_)
RunHandler(c) == IF c.pc = "done" THEN c ELSE RunHandler(HandlerStep(c))

Install(p, c) ==
    /\ employee' = c.st.employee
    /\ payrollEntry' = c.st.payrollEntry
    /\ overtimeEntry' = c.st.overtimeEntry
    /\ nextId' = c.st.nextId
    /\ overtimeEdited' = c.st.overtimeEdited
    /\ pc' = [pc EXCEPT ![p] = c.pc]
    /\ loc' = [loc EXCEPT ![p] = c.loc]
    /\ resp' = [resp EXCEPT ![p] = c.resp]

\* a request of the given cost arrives at the free slot p
Begin(p, cost) ==
    /\ pc[p] = "idle"
    /\ ops + cost <= MaxOps
    /\ ops' = ops + cost
    /\ UNCHANGED auditLog

\* the request is served from its arrival to its response
Serve(p, c, cost) ==
    /\ Begin(p, cost)
    /\ Install(p, RunHandler(c))

\* the request is served up to its first await
Start(p, c, cost) ==
    /\ Begin(p, cost)
    /\ Install(p, c)

\* res.json / errorHandler has written the response; the slot is free again
Respond(p) ==
    /\ pc[p] = "done"
    /\ pc' = [pc EXCEPT ![p] = "idle"]
    /\ loc' = [loc EXCEPT ![p] = NoLoc]
    /\ resp' = [resp EXCEPT ![p] = NoResp]
    /\ UNCHANGED <<storeVars, ops, edits, overtimeEdited, auditLog>>

-----------------------------------------------------------------------------
(* Requests, served one at a time *)

PayrollIds == {r.id : r \in payrollEntry} \cup {0}
OvertimeIds == {r.id : r \in overtimeEntry} \cup {0}

updateEmployee(p) ==
    /\ edits < MaxEdits
    /\ edits' = edits + 1
    /\ \E edit \in EmployeeEdits : Serve(p, updateEmployeeCall(Store, edit[1], edit[2]), 0)

getPayrollByMonth(p) ==
    /\ \E period \in PeriodInputs : Serve(p, getPayrollByMonthCall(Store, period[1], period[2]), 1)
    /\ UNCHANGED edits

getPayrollById(p) ==
    /\ \E id \in PayrollIds : Serve(p, getPayrollByIdCall(Store, id), 1)
    /\ UNCHANGED edits

updatePayroll(p) ==
    /\ \E id \in PayrollIds, input \in PayrollPatches : Serve(p, updatePayrollCall(Store, id, input), 1)
    /\ UNCHANGED edits

batchUpdatePayroll(p) ==
    /\ \E items \in BatchBodies : Serve(p, batchUpdatePayrollCall(Store, items), Max(1, Len(items)))
    /\ UNCHANGED edits

createOvertimeEntry(p) ==
    /\ \E input \in OvertimeInputs : Serve(p, createOvertimeEntryCall(Store, input), 1)
    /\ UNCHANGED edits

deleteOvertimeEntry(p) ==
    /\ \E id \in OvertimeIds : Serve(p, deleteOvertimeEntryCall(Store, id), 1)
    /\ UNCHANGED edits

Init ==
    /\ employee = [e \in EmployeeIds |->
                     IF e = "e1"
                     THEN [fullName |-> 1, isInsured |-> TRUE, endDate |-> Null,
                           salary |-> 30000, workingDays |-> 30]
                     ELSE [fullName |-> 2, isInsured |-> FALSE, endDate |-> <<6, 2024>>,
                           salary |-> 24000, workingDays |-> 15]]
    /\ payrollEntry = {}
    /\ overtimeEntry = {}
    /\ nextId = 1
    /\ pc = [p \in Procs |-> "idle"]
    /\ loc = [p \in Procs |-> NoLoc]
    /\ resp = [p \in Procs |-> NoResp]
    /\ ops = 0
    /\ edits = 0
    /\ overtimeEdited = FALSE
    /\ auditLog = << >>

Next ==
    \E p \in SeqProcs :
        \/ updateEmployee(p)
        \/ getPayrollByMonth(p)
        \/ getPayrollById(p)
        \/ updatePayroll(p)
        \/ batchUpdatePayroll(p)
        \/ createOvertimeEntry(p)
        \/ deleteOvertimeEntry(p)
        \/ Respond(p)

Spec == Init /\ [][Next]_vars

-----------------------------------------------------------------------------
(* Requests in flight together: every await of a handler is a point where the
   other request's store calls may come in between *)

ConcPeriod == <<6, 2024>>

ConcEmployeeEdits == {<<"e1", [endDate |-> <<12, 2023>>]>>}

ConcPayrollPatches ==
    {[daysWorked |-> 15], [advance |-> Lira(1000)], [overtime50 |-> 0], [advance |-> -1]}

ConcBatchItems ==
    {[employeeId |-> "e1", month |-> 6, year |-> 2024, fields |-> [daysWorked |-> 15]],
     [employeeId |-> "e2", month |-> 6, year |-> 2024, fields |-> [advance |-> Lira(1000)]],
     [employeeId |-> "e1", month |-> 6, year |-> 2024, fields |-> [overtime100 |-> 0]]}

ConcBatchBodies ==
    {b \in {<<i>> : i \in ConcBatchItems} \cup {<<i, j>> : i, j \in ConcBatchItems} :
        Len(b) <= MaxBatchLen}

ConcOvertimeInputs ==
    {[employeeId |-> e, month |-> ConcPeriod[1], year |-> ConcPeriod[2], type |-> t,
      amount |-> Lira(300)] : e \in EmployeeIds, t \in OvertimeTypes}

Context(p) == [st |-> Store, pc |-> pc[p], loc |-> loc[p], resp |-> resp[p]]

updateEmployeeArrives(p) ==
    /\ edits < MaxEdits
    /\ edits' = edits + 1
    /\ \E edit \in ConcEmployeeEdits : Start(p, updateEmployeeCall(Store, edit[1], edit[2]), 0)

getPayrollByMonthArrives(p) ==
    /\ Start(p, getPayrollByMonthCall(Store, ConcPeriod[1], ConcPeriod[2]), 1)
    /\ UNCHANGED edits

updatePayrollArrives(p) ==
    /\ \E id \in PayrollIds, input \in ConcPayrollPatches :
          Start(p, updatePayrollCall(Store, id, input), 1)
    /\ UNCHANGED edits

batchUpdatePayrollArrives(p) ==
    /\ \E items \in ConcBatchBodies : Start(p, batchUpdatePayrollCall(Store, items), Len(items))
    /\ UNCHANGED edits

createOvertimeEntryArrives(p) ==
    /\ \E input \in ConcOvertimeInputs : Start(p, createOvertimeEntryCall(Store, input), 1)
    /\ UNCHANGED edits

deleteOvertimeEntryArrives(p) ==
    /\ \E id \in OvertimeIds : Start(p, deleteOvertimeEntryCall(Store, id), 1)
    /\ UNCHANGED edits

\* the handler in slot p resumes after an await and runs to its next one
Continue(p) ==
    /\ pc[p] \notin {"idle", "done"}
    /\ Install(p, HandlerStep(Context(p)))
    /\ UNCHANGED <<ops, edits, auditLog>>

NextConc ==
    \E p \in Procs :
        \/ updateEmployeeArrives(p)
        \/ getPayrollByMonthArrives(p)
        \/ updatePayrollArrives(p)
        \/ batchUpdatePayrollArrives(p)
        \/ createOvertimeEntryArrives(p)
        \/ deleteOvertimeEntryArrives(p)
        \/ Continue(p)
        \/ Respond(p)

SpecConc == Init /\ [][NextConc]_vars

-----------------------------------------------------------------------------
(* Audit log middleware, requests served one at a time *)

\* the routes that mount auditLogMiddleware; the GET routes do not
AuditedOps ==
    {"updateEmployee", "updatePayroll", "batchUpdatePayroll",
     "createOvertimeEntry", "deleteOvertimeEntry"}

\* auditData?.actionOverride || getActionFromMethod(req.method)
AuditAction(l, r) ==
    CASE l.op \in {"updateEmployee", "updatePayroll"} -> "UPDATE"
      [] l.op = "batchUpdatePayroll" ->
            IF validateBatchInput(l.items) /\ Len(l.items) > 0 THEN "UPDATE" ELSE "CREATE"
      [] l.op = "createOvertimeEntry" -> IF r.code = "OK" THEN "UPDATE" ELSE "CREATE"
      [] l.op = "deleteOvertimeEntry" -> "DELETE"
      [] OTHER -> "NONE"

\* the record createAuditLog is called with; request stands for the record's own
\* id and timestamp. entityId, entityName and the field snapshots are not kept,
\* only whether an old row was at hand.
AuditRecord(l, r, request) ==
    [action |-> AuditAction(l, r),
     entityType |-> IF l.op = "updateEmployee" THEN "EMPLOYEE" ELSE "PAYROLL",
     op |-> l.op,
     hasOldData |-> IF l.op = "deleteOvertimeEntry" THEN l.entry # {} ELSE l.oldData # {},
     request |-> request]

\* captureOldData: found is the row getOldData returned, empty when there is
\* none or when getOldData threw
captureOldData(c, found) == [c EXCEPT !.loc.oldData = found]

\* res.json where a rejected createAuditLog fails the request
RespondAuditedPropagates(p) ==
    /\ pc[p] = "done"
    /\ pc' = [pc EXCEPT ![p] = "idle"]
    /\ IF /\ loc[p].op \in AuditedOps
          /\ AuditAction(loc[p], resp[p]) # "NONE"
          /\ resp[p].status < 400
       THEN \E created \in BOOLEAN :
               /\ auditLog' = IF created
                              THEN Append(auditLog, AuditRecord(loc[p], resp[p], ops + edits))
                              ELSE auditLog
               /\ resp' = IF created THEN resp ELSE [resp EXCEPT ![p] = InternalError]
       ELSE UNCHANGED <<auditLog, resp>>
    /\ UNCHANGED <<storeVars, loc, ops, edits, overtimeEdited>>

\* res.json without the check of res.statusCode
RespondAuditedAnyStatus(p) ==
    /\ pc[p] = "done"
    /\ pc' = [pc EXCEPT ![p] = "idle"]
    /\ IF /\ loc[p].op \in AuditedOps
          /\ AuditAction(loc[p], resp[p]) # "NONE"
       THEN \E created \in BOOLEAN :
               auditLog' = IF created
                           THEN Append(auditLog, AuditRecord(loc[p], resp[p], ops + edits))
                           ELSE auditLog
       ELSE UNCHANGED auditLog
    /\ UNCHANGED <<storeVars, loc, resp, ops, edits, overtimeEdited>>

\* the overridden res.json of auditLogMiddleware (errorHandler answers through it
\* as well): no record for a request without action or with status >= 400;
\* otherwise createAuditLog is started, its rejection is caught and logged to the
\* console, and the body is sent. loc and resp keep the request and the response
\* sent until the next request arrives.
RespondAudited(p) ==
    /\ pc[p] = "done"
    /\ pc' = [pc EXCEPT ![p] = "idle"]
    /\ IF /\ loc[p].op \in AuditedOps
          /\ AuditAction(loc[p], resp[p]) # "NONE"
          /\ resp[p].status < 400
       THEN \E created \in BOOLEAN :
               auditLog' = IF created
                           THEN Append(auditLog, AuditRecord(loc[p], resp[p], ops + edits))
                           ELSE auditLog
       ELSE UNCHANGED auditLog
    /\ UNCHANGED <<storeVars, loc, resp, ops, edits, overtimeEdited>>

\* PUT /api/employees/:id behind captureOldData
updateEmployeeAudited(p) ==
    /\ edits < MaxEdits
    /\ edits' = edits + 1
    /\ \E edit \in ConcEmployeeEdits \cup {<<GhostEmployee, [isInsured |-> FALSE]>>},
          captured \in BOOLEAN :
          Start(p, captureOldData(updateEmployeeCall(Store, edit[1], edit[2]),
                                  IF captured /\ edit[1] \in DOMAIN employee
                                  THEN {employee[edit[1]]} ELSE {}), 0)

\* PUT /api/payroll/:id behind captureOldData
updatePayrollAudited(p) ==
    /\ \E id \in PayrollIds, input \in ConcPayrollPatches, captured \in BOOLEAN :
          Start(p, captureOldData(updatePayrollCall(Store, id, input),
                                  IF captured THEN EntryById(payrollEntry, id) ELSE {}), 1)
    /\ UNCHANGED edits

\* DELETE /api/overtime/:id behind captureOldData
deleteOvertimeEntryAudited(p) ==
    /\ \E id \in OvertimeIds, captured \in BOOLEAN :
          Start(p, captureOldData(deleteOvertimeEntryCall(Store, id),
                                  IF captured THEN EntryById(overtimeEntry, id) ELSE {}), 1)
    /\ UNCHANGED edits

NextAudit ==
    \E p \in SeqProcs :
        \/ updateEmployeeAudited(p)
        \/ getPayrollByMonthArrives(p)
        \/ updatePayrollAudited(p)
        \/ batchUpdatePayrollArrives(p)
        \/ createOvertimeEntryArrives(p)
        \/ deleteOvertimeEntryAudited(p)
        \/ Continue(p)
        \/ RespondAudited(p)

SpecAudit == Init /\ [][NextAudit]_vars

-----------------------------------------------------------------------------
(* calculateOfficialAndCash on its own *)

\* The arguments the callers can pass: employee rows have salary >= 0 and
\* workingDays >= 1, daysWorked is validated to 0..31, the advances are floored
\* at 0 before they are stored or passed; overtime may be negative.
SplitSalaries == {0, 24000, 30000}
SplitWorkingDays == {15, 30}
SplitDaysWorked == {0, 15, 30, 31}
SplitOvertime50 == {-Lira(300), 0, Lira(300)}
SplitOvertime100 == {0, Lira(500)}
SplitAdvances == {0, Lira(1000), Lira(50000)}

SplitArguments ==
    [isInsured : BOOLEAN, salary : SplitSalaries, workingDays : SplitWorkingDays,
     daysWorked : SplitDaysWorked, overtime50 : SplitOvertime50,
     overtime100 : SplitOvertime100, cashAdvance : SplitAdvances,
     officialAdvance : SplitAdvances]

InitSplit ==
    /\ employee = [e \in EmployeeIds |->
                     [fullName |-> 1, isInsured |-> TRUE, endDate |-> Null,
                      salary |-> 30000, workingDays |-> 30]]
    /\ payrollEntry = {}
    /\ overtimeEntry = {}
    /\ nextId = 1
    /\ pc = [p \in Procs |-> IF p = "r1" THEN "start" ELSE "idle"]
    /\ \E a \in SplitArguments :
          loc = [p \in Procs |-> IF p = "r1"
                                 THEN [NoLoc EXCEPT !.op = "calculateOfficialAndCash", !.input = a]
                                 ELSE NoLoc]
    /\ resp = [p \in Procs |-> NoResp]
    /\ ops = 0
    /\ edits = 0
    /\ overtimeEdited = FALSE
    /\ auditLog = << >>

\* the function is applied to the arguments and its result kept as the response
calculateOfficialAndCashApplied ==
    /\ pc["r1"] = "start"
    /\ LET a == loc["r1"].input
       IN  resp' = [resp EXCEPT !["r1"] =
                       Ok(200, <<calculateOfficialAndCash(a.isInsured, a.salary, a.workingDays,
                                     a.daysWorked, a.overtime50, a.overtime100,
                                     a.cashAdvance, a.officialAdvance)>>)]
    /\ pc' = [pc EXCEPT !["r1"] = "done"]
    /\ UNCHANGED <<storeVars, loc, ops, edits, overtimeEdited, auditLog>>

NextSplit == calculateOfficialAndCashApplied

SpecSplit == InitSplit /\ [][NextSplit]_vars

-----------------------------------------------------------------------------
(* Properties *)

Done(p, op) == pc[p] = "done" /\ loc[p].op = op

Succeeded(p) == resp[p].code = "OK"

SameKey(a, b) == a.employeeId = b.employeeId /\ a.month = b.month /\ a.year = b.year

RowOf(id) == CHOOSE r \in payrollEntry : r.id = id

RECURSIVE SumAmounts(_)
SumAmounts(rows) ==
    IF rows = {} THEN 0
    ELSE LET r == CHOOSE x \in rows : TRUE IN r.amount + SumAmounts(rows \ {r})

OvertimeOf(e, period, type) ==
    {o \in overtimeEntry : o.employeeId = e /\ o.month = period[1] /\ o.year = period[2]
                           /\ o.type = type}

\* officialBase and cashBase of a stored row under the employee row as it is now
OfficialBaseOf(r) ==
    BaseOfficial(employee[r.employeeId].isInsured, employee[r.employeeId].salary,
                 employee[r.employeeId].workingDays, r.daysWorked)

CashBaseOf(r) ==
    BaseCash(employee[r.employeeId].isInsured, employee[r.employeeId].salary,
             employee[r.employeeId].workingDays, r.daysWorked, r.overtime50, r.overtime100)

\* C1: for every (employeeId, month, year) at most one PayrollEntry exists in
\* every reachable state, under any interleaving of the requests.
C1_UniquePayrollEntry == \A a, b \in payrollEntry : SameKey(a, b) => a = b

\* C1, its case: a period fetch that raced with another writer of the same key,
\* found no row, and had its createMany rejected by the unique index.
C1_RejectedCreateMany ==
    \E p \in Procs :
        /\ Done(p, "getPayrollByMonth")
        /\ resp[p].code = "INTERNAL_ERROR"
        /\ loc[p].existing = {}
        /\ EntriesOfPeriod(payrollEntry, loc[p].month, loc[p].year) # {}

ChangesBases(item, old) ==
    \E f \in {"daysWorked", "overtime50", "overtime100"} :
        Has(item.fields, f) /\ item.fields[f] # old[f]

\* C4: after a successful batchUpdatePayroll, for every item that changed
\* daysWorked, overtime50 or overtime100 of an existing PayrollEntry, the stored
\* advance is at most the cashBase and the stored officialAdvance at most the
\* officialBase of the new values, whether or not the item supplied them.
C4_BatchAdvancesWithinBases ==
    \A p \in Procs :
        Done(p, "batchUpdatePayroll") /\ Succeeded(p) =>
            \A i \in 1..Len(loc[p].items) :
                \A old \in EntriesOf(loc[p].pre.payrollEntry, loc[p].items[i].employeeId,
                                     loc[p].items[i].month, loc[p].items[i].year) :
                    ChangesBases(loc[p].items[i], old) =>
                        /\ RowOf(old.id).advance <= CashBaseOf(RowOf(old.id))
                        /\ RowOf(old.id).officialAdvance <= OfficialBaseOf(RowOf(old.id))

PayrollViewOps == {"getPayrollByMonth", "getPayrollById", "updatePayroll", "batchUpdatePayroll"}

\* C5: for every PayrollEntry of a non-insured employee the stored
\* officialPayment and officialAdvance are 0, and so are they in every view
\* returned by getPayrollByMonth, getPayrollById, updatePayroll and
\* batchUpdatePayroll, whatever the earlier history.
C5_NonInsuredOfficialZero ==
    /\ \A r \in payrollEntry :
          ~employee[r.employeeId].isInsured => r.officialPayment = 0 /\ r.officialAdvance = 0
    /\ \A p \in Procs :
          pc[p] = "done" /\ loc[p].op \in PayrollViewOps /\ Succeeded(p) =>
              \A i \in 1..Len(resp[p].views) :
                  ~resp[p].views[i].isInsured =>
                      /\ resp[p].views[i].officialPayment = 0
                      /\ resp[p].views[i].officialAdvance = 0

\* C6: in every reachable state advance, officialAdvance, overtime50,
\* overtime100, officialPayment and cashPayment of every PayrollEntry are >= 0.
C6_CurrencyNonNegative ==
    \A r \in payrollEntry :
        /\ r.advance >= 0 /\ r.officialAdvance >= 0
        /\ r.overtime50 >= 0 /\ r.overtime100 >= 0
        /\ r.officialPayment >= 0 /\ r.cashPayment >= 0

\* active for a period: no endDate, or endDate's (year, month) >= the period's
ActiveInPeriod(e, month, year) ==
    \/ employee[e].endDate = Null
    \/ employee[e].endDate[2] > year
    \/ employee[e].endDate[2] = year /\ employee[e].endDate[1] >= month

\* C7: a successful getPayrollByMonth(month, year) returns exactly one entry, of
\* that period, for each employee active for the period and none for an employee
\* whose endDate is before it, stored entry or not, and creates no entry for
\* such an employee.
C7_PeriodEntriesOfActiveOnly ==
    \A p \in Procs :
        Done(p, "getPayrollByMonth") /\ Succeeded(p) =>
            LET views == resp[p].views
                active == {e \in DOMAIN employee : ActiveInPeriod(e, loc[p].month, loc[p].year)}
            IN  /\ Len(views) = Cardinality(active)
                /\ {views[i].employeeId : i \in 1..Len(views)} = active
                /\ \A i \in 1..Len(views) :
                      views[i].month = loc[p].month /\ views[i].year = loc[p].year
                /\ \A r \in payrollEntry \ loc[p].pre.payrollEntry : r.employeeId \in active

\* C7, its case: a successful fetch of a period for which an employee who ended
\* before it has a stored entry.
C7_StoredEntryOfEndedEmployee ==
    \E p \in Procs :
        /\ Done(p, "getPayrollByMonth") /\ Succeeded(p)
        /\ \E r \in EntriesOfPeriod(payrollEntry, loc[p].month, loc[p].year) :
              ~ActiveInPeriod(r.employeeId, loc[p].month, loc[p].year)
        /\ Len(resp[p].views) > 0

\* the fields every implicitly created entry starts with
ImplicitDefaults(r) ==
    /\ r.daysWorked = employee[r.employeeId].workingDays
    /\ r.advance = 0 /\ r.officialAdvance = 0
    /\ r.officialPayment = 0 /\ r.cashPayment = 0
    /\ r.sortOrder = 0

\* C8: an entry created by getPayrollByMonth, or by createOvertimeEntry's upsert
\* when the key had none, has daysWorked = the employee's workingDays, advance,
\* officialAdvance, officialPayment, cashPayment and sortOrder 0, and overtime
\* fields 0 (getPayrollByMonth) or the created amount under the matching type
\* and 0 under the other (createOvertimeEntry).
C8_ImplicitCreationDefaults ==
    \A p \in Procs :
        /\ Done(p, "getPayrollByMonth") /\ Succeeded(p) =>
              \A r \in payrollEntry \ loc[p].pre.payrollEntry :
                  ImplicitDefaults(r) /\ r.overtime50 = 0 /\ r.overtime100 = 0
        /\ Done(p, "createOvertimeEntry") /\ Succeeded(p) =>
              \A r \in payrollEntry \ loc[p].pre.payrollEntry :
                  UniqueKeyFree(loc[p].pre.payrollEntry, r.employeeId, r.month, r.year) =>
                      /\ ImplicitDefaults(r)
                      /\ SameKey(r, loc[p].input)
                      /\ r.overtime50 = IF loc[p].input.type = "OVERTIME_50"
                                        THEN loc[p].input.amount ELSE 0
                      /\ r.overtime100 = IF loc[p].input.type = "OVERTIME_100"
                                         THEN loc[p].input.amount ELSE 0

\* C8, its case: createOvertimeEntry of type OVERTIME_100 has created the
\* PayrollEntry of a key that had none, next to entries created by a fetch.
C8_CreatedByOvertime ==
    \E p \in Procs :
        /\ Done(p, "createOvertimeEntry") /\ Succeeded(p)
        /\ loc[p].input.type = "OVERTIME_100"
        /\ UniqueKeyFree(loc[p].pre.payrollEntry, loc[p].input.employeeId,
                         loc[p].input.month, loc[p].input.year)
        /\ loc[p].pre.payrollEntry # {}
        /\ Cardinality(payrollEntry) = Cardinality(loc[p].pre.payrollEntry) + 1

\* a body with a negative daysWorked, advance, officialAdvance, overtime50 or
\* overtime100, or a daysWorked above 31
OutOfRange(fields) ==
    \/ \E f \in DOMAIN fields \cap {"daysWorked", "advance", "officialAdvance",
                                    "overtime50", "overtime100"} : fields[f] < 0
    \/ Has(fields, "daysWorked") /\ fields.daysWorked > 31

\* C9: an updatePayroll request with an out-of-range field, and a
\* batchUpdatePayroll request with an out-of-range field in any of its items,
\* ends with VALIDATION_ERROR and leaves the PayrollEntry table as it was.
C9_OutOfRangeRejected ==
    \A p \in Procs :
        /\ Done(p, "updatePayroll") /\ OutOfRange(loc[p].input) =>
              resp[p].code = "VALIDATION_ERROR" /\ payrollEntry = loc[p].pre.payrollEntry
        /\ (Done(p, "batchUpdatePayroll")
              /\ \E i \in 1..Len(loc[p].items) : OutOfRange(loc[p].items[i].fields)) =>
              resp[p].code = "VALIDATION_ERROR" /\ payrollEntry = loc[p].pre.payrollEntry

\* C9, its case: a batch whose first item is in range and for an existing
\* employee and whose second item is out of range.
C9_BatchWithLaterBadItem ==
    \E p \in Procs :
        /\ Done(p, "batchUpdatePayroll")
        /\ Len(loc[p].items) = 2
        /\ ~OutOfRange(loc[p].items[1].fields)
        /\ loc[p].items[1].employeeId \in DOMAIN employee
        /\ OutOfRange(loc[p].items[2].fields)
        /\ resp[p].code = "VALIDATION_ERROR"

\* a body without the caller's officialPayment and cashPayment
WithoutSplit(fields) == [f \in DOMAIN fields \ {"officialPayment", "cashPayment"} |-> fields[f]]

ItemsWithoutSplit(items) ==
    [i \in 1..Len(items) |-> [items[i] EXCEPT !.fields = WithoutSplit(@)]]

\* the same request, from the same store, without officialPayment and cashPayment
RunWithoutSplit(p) ==
    IF loc[p].op = "updatePayroll"
    THEN RunHandler(updatePayrollCall(loc[p].pre, loc[p].id, WithoutSplit(loc[p].input)))
    ELSE RunHandler(batchUpdatePayrollCall(loc[p].pre, ItemsWithoutSplit(loc[p].items)))

\* the views carry the split engine's outputs
ViewsCarrySplit(p) ==
    \A i \in 1..Len(resp[p].views) :
        LET v == resp[p].views[i]
            emp == employee[v.employeeId]
            split == calculateOfficialAndCash(emp.isInsured, emp.salary, emp.workingDays,
                                              v.daysWorked, v.overtime50, v.overtime100,
                                              v.advance, v.officialAdvance)
        IN  v.officialPayment = split.officialPayment /\ v.cashPayment = split.cashPayment

\* the supplied officialPayment and cashPayment are ones the schema accepts
SplitAccepted(p) ==
    IF loc[p].op = "updatePayroll"
    THEN Given(loc[p].input, "officialPayment", 0) >= 0 /\ Given(loc[p].input, "cashPayment", 0) >= 0
    ELSE \A i \in 1..Len(loc[p].items) :
            /\ Given(loc[p].items[i].fields, "officialPayment", 0) >= 0
            /\ Given(loc[p].items[i].fields, "cashPayment", 0) >= 0

-----------------------------------------------------------------------------
(* Batch update and a missing employee *)

\* item i of a batch was processed and persisted: its row exists and carries the
\* daysWorked and overtime the item supplied
ItemPersisted(rows, item) ==
    \E r \in EntriesOf(rows, item.employeeId, item.month, item.year) :
        \A f \in DOMAIN item.fields \cap {"daysWorked", "overtime50", "overtime100"} :
            r[f] = item.fields[f]

\* C11: in a batch update whose body is valid, an item that references a missing
\* employee fails only that item: every later item of an existing employee is
\* still processed and persisted.
C11_MissingEmployeeFailsOnlyItsItem ==
    \A p \in Procs :
        Done(p, "batchUpdatePayroll") /\ validateBatchInput(loc[p].items)
            /\ resp[p].code # "INTERNAL_ERROR" =>
            \A i, j \in 1..Len(loc[p].items) :
                /\ i < j
                /\ loc[p].items[i].employeeId \notin DOMAIN employee
                /\ loc[p].items[j].employeeId \in DOMAIN employee
                => ItemPersisted(payrollEntry, loc[p].items[j])

-----------------------------------------------------------------------------
(* Overtime transactions *)

\* the sum of the overtime amounts of one employee, period and type among rows
OvertimeTotal(rows, e, period, type) ==
    SumAmounts({o \in rows : o.employeeId = e /\ o.month = period[1] /\ o.year = period[2]
                             /\ o.type = type})

\* the overtime field of that type in the employee's payroll row of the period,
\* 0 without a row
PayrollOvertime(rows, e, period, type) ==
    LET found == EntriesOf(rows, e, period[1], period[2])
    IN  IF found = {} THEN 0
        ELSE IF type = "OVERTIME_50" THEN (CHOOSE r \in found : TRUE).overtime50
        ELSE (CHOOSE r \in found : TRUE).overtime100

\* the step is the transaction of the overtime request in slot p
OvertimeTransaction(p) == pc[p] \in {"ot_create", "del_delete"} /\ pc'[p] = "done"

\* C12: the transaction of createOvertimeEntry and of deleteOvertimeEntry is
\* all-or-nothing. In every step, of interleaved requests too, the overtime
\* entries of an employee, period and type change by exactly the amount by which
\* the matching overtime field of the payroll row changes, an inserted entry has
\* its payroll row, and a transaction that fails changes neither table.
C12_OvertimeWritesAllOrNothing ==
    [][/\ \A e \in EmployeeIds, period \in ValidPeriods, type \in OvertimeTypes :
             overtimeEntry' # overtimeEntry =>
                 /\ OvertimeTotal(overtimeEntry', e, period, type)
                        - OvertimeTotal(overtimeEntry, e, period, type)
                    = PayrollOvertime(payrollEntry', e, period, type)
                        - PayrollOvertime(payrollEntry, e, period, type)
                 /\ OvertimeTotal(overtimeEntry', e, period, type) > 0
                        => EntriesOf(payrollEntry', e, period[1], period[2]) # {}
       /\ \A p \in Procs :
             OvertimeTransaction(p) /\ (resp'[p].code # "OK" \/ overtimeEntry' = overtimeEntry)
                 => payrollEntry' = payrollEntry /\ overtimeEntry' = overtimeEntry]_vars

\* C12, its case: a delete transaction failed because a concurrent request had
\* deleted the same entry; the payroll row was decremented once, not twice.
C12_FailedDeleteChangedNothing ==
    \E p \in Procs :
        /\ Done(p, "deleteOvertimeEntry") /\ resp[p].code = "INTERNAL_ERROR"
        /\ EntryById(overtimeEntry, loc[p].id) = {}
        /\ \E o \in loc[p].entry :
              /\ EntriesOf(payrollEntry, o.employeeId, o.month, o.year) # {}
              /\ PayrollOvertime(payrollEntry, o.employeeId, <<o.month, o.year>>, o.type)
                 = OvertimeTotal(overtimeEntry, o.employeeId, <<o.month, o.year>>, o.type)

-----------------------------------------------------------------------------
(* Not-found failures *)

\* the request in slot p left both tables as they were when it arrived
TablesUntouched(p) ==
    /\ payrollEntry = loc[p].pre.payrollEntry
    /\ overtimeEntry = loc[p].pre.overtimeEntry

\* C13: updatePayroll (with a body the route accepts) and getPayrollById on an id
\* that has no PayrollEntry answer 404 PAYROLL_NOT_FOUND, deleteOvertimeEntry on
\* an id that has no OvertimeEntry answers 404 OVERTIME_NOT_FOUND, and
\* createOvertimeEntry (with a body the route accepts) for a missing employee
\* answers 404 EMPLOYEE_NOT_FOUND; in each case no PayrollEntry and no
\* OvertimeEntry is created, modified or deleted.
C13_NotFoundLeavesStoreUnchanged ==
    \A p \in Procs :
        pc[p] = "done" =>
            LET pre == loc[p].pre
            IN  /\ /\ loc[p].op = "updatePayroll"
                   /\ validatePayrollInput(loc[p].input)
                   /\ EntryById(pre.payrollEntry, loc[p].id) = {}
                   => resp[p] = Fail(404, "PAYROLL_NOT_FOUND") /\ TablesUntouched(p)
                /\ /\ loc[p].op = "getPayrollById"
                   /\ EntryById(pre.payrollEntry, loc[p].id) = {}
                   => resp[p] = Fail(404, "PAYROLL_NOT_FOUND") /\ TablesUntouched(p)
                /\ /\ loc[p].op = "deleteOvertimeEntry"
                   /\ EntryById(pre.overtimeEntry, loc[p].id) = {}
                   => resp[p] = Fail(404, "OVERTIME_NOT_FOUND") /\ TablesUntouched(p)
                /\ /\ loc[p].op = "createOvertimeEntry"
                   /\ validateCreateOvertimeEntryInput(loc[p].input)
                   /\ loc[p].input.employeeId \notin DOMAIN pre.employee
                   => resp[p] = Fail(404, "EMPLOYEE_NOT_FOUND") /\ TablesUntouched(p)
                /\ /\ loc[p].op \in {"updatePayroll", "getPayrollById",
                                     "deleteOvertimeEntry", "createOvertimeEntry"}
                   /\ resp[p].status = 404
                   => TablesUntouched(p)

\* C13, its case: a delete of an id that has no overtime entry, answered while
\* both tables hold rows.
C13_DeleteOfAbsentEntry ==
    \E p \in Procs :
        /\ Done(p, "deleteOvertimeEntry")
        /\ EntryById(loc[p].pre.overtimeEntry, loc[p].id) = {}
        /\ resp[p].code = "OVERTIME_NOT_FOUND"
        /\ payrollEntry # {} /\ overtimeEntry # {}

-----------------------------------------------------------------------------
(* Calculated fields of a view *)

\* the views of the response in slot p
ViewsOf(p) == {resp[p].views[i] : i \in 1..Len(resp[p].views)}

-----------------------------------------------------------------------------
(* The reference split *)

\* salary / workingDays * daysWorked, floored at 0
RefEarned(a) == Max(0, (Lira(a.salary) * a.daysWorked) \div a.workingDays)

\* officialDailyRate * daysWorked, officialDailyRate = 28075 / 30
RefOfficialCap(a) == (Lira(FIXED_OFFICIAL_PAYMENT) * a.daysWorked) \div OFFICIAL_WORKING_DAYS_BASE

RefOfficialBase(a) ==
    IF a.isInsured THEN Min(RefEarned(a), Max(0, RefOfficialCap(a))) ELSE 0

RefCashBase(a) ==
    Max(0, RefEarned(a) - RefOfficialBase(a)) + Max(0, a.overtime50) + Max(0, a.overtime100)

RefOfficialPayment(a) ==
    IF a.isInsured THEN RefOfficialBase(a) - Min(RefOfficialBase(a), a.officialAdvance) ELSE 0

RefCashPayment(a) == RefCashBase(a) - Min(RefCashBase(a), a.cashAdvance)

\* C15: for all arguments of the bounded sets, calculateOfficialAndCash returns
\* the reference split; its officialPayment exceeds neither officialDailyRate *
\* daysWorked nor earned, both results are >= 0, and overtime goes to the cash
\* channel only: officialPayment is what it is without overtime, and cashPayment
\* before the advance grows by exactly the positive overtime.
C15_SplitIsReference ==
    pc["r1"] = "done" /\ loc["r1"].op = "calculateOfficialAndCash" =>
        LET a == loc["r1"].input
            split == resp["r1"].views[1]
            noOvertime == calculateOfficialAndCash(a.isInsured, a.salary, a.workingDays,
                              a.daysWorked, 0, 0, 0, a.officialAdvance)
            noAdvance == calculateOfficialAndCash(a.isInsured, a.salary, a.workingDays,
                             a.daysWorked, a.overtime50, a.overtime100, 0, a.officialAdvance)
        IN  /\ split.officialPayment = RefOfficialPayment(a)
            /\ split.cashPayment = RefCashPayment(a)
            /\ split.officialPayment <= RefOfficialCap(a)
            /\ split.officialPayment <= RefEarned(a)
            /\ split.officialPayment >= 0 /\ split.cashPayment >= 0
            /\ split.officialPayment = noOvertime.officialPayment
            /\ noAdvance.cashPayment
                   = noOvertime.cashPayment + Max(0, a.overtime50) + Max(0, a.overtime100)

\* C15, its case: the split of an insured employee whose earned salary exceeds
\* the official cap, with overtime and both advances.
C15_InsuredAboveCapWithOvertime ==
    /\ pc["r1"] = "done" /\ loc["r1"].op = "calculateOfficialAndCash"
    /\ LET a == loc["r1"].input
       IN  /\ a.isInsured /\ RefEarned(a) > RefOfficialCap(a) /\ RefOfficialCap(a) > 0
           /\ a.overtime50 > 0 /\ a.cashAdvance > 0 /\ a.officialAdvance > 0
           /\ resp["r1"].views[1].officialPayment > 0
           /\ resp["r1"].views[1].cashPayment > 0

-----------------------------------------------------------------------------
(* Audit-log failures *)

\* the request last answered in slot p was a mutation that succeeded
AnsweredMutation(p) ==
    /\ pc[p] = "idle" /\ loc[p].op \in AuditedOps
    /\ resp[p].code = "OK"

\* the audit records of the request last answered
RecordsOfLast == {i \in 1..Len(auditLog) : auditLog[i].request = ops + edits}

\* C16: the step that sends a response leaves the store and the response as the
\* handler produced them, whether the audit record is created or createAuditLog
\* fails; so a mutation whose record is missing is persisted and answered exactly
\* as one whose record exists.
C16_AuditFailureChangesNothing ==
    [][\A p \in Procs :
          pc[p] = "done" /\ pc'[p] = "idle" =>
              /\ storeVars' = storeVars
              /\ resp'[p] = resp[p]
              /\ loc'[p] = loc[p]]_vars

\* C16, its case: an updatePayroll was answered 200 with its view and its change
\* of daysWorked is stored, and no audit record of it exists.
C16_MutationAnsweredWithoutRecord ==
    \E p \in Procs :
        /\ AnsweredMutation(p) /\ loc[p].op = "updatePayroll"
        /\ RecordsOfLast = {}
        /\ Has(loc[p].input, "daysWorked")
        /\ \E r \in EntryById(payrollEntry, loc[p].id), old \in loc[p].entry :
              /\ r.daysWorked = loc[p].input.daysWorked
              /\ old.daysWorked # r.daysWorked
              /\ resp[p].views[1].daysWorked = r.daysWorked

-----------------------------------------------------------------------------
(* Employee edits and payroll views *)

\* the arguments of the split of a view under the employee row as it is now
CurrentArguments(v) ==
    [isInsured |-> employee[v.employeeId].isInsured,
     salary |-> employee[v.employeeId].salary,
     workingDays |-> employee[v.employeeId].workingDays,
     daysWorked |-> v.daysWorked, overtime50 |-> v.overtime50, overtime100 |-> v.overtime100,
     cashAdvance |-> v.advance, officialAdvance |-> v.officialAdvance]

\* C17: updateEmployee changes no PayrollEntry and no OvertimeEntry, and every
\* view returned afterwards (any period) has the dailyWage, earnedSalary,
\* totalReceivable, officialPayment and cashPayment of the employee's current
\* salary, workingDays and isInsured, whatever the entry stored when it was
\* created or last updated.
C17_ViewsUseCurrentEmployee ==
    \A p \in Procs :
        /\ Done(p, "updateEmployee") => TablesUntouched(p)
        /\ pc[p] = "done" /\ loc[p].op \in PayrollViewOps /\ Succeeded(p) =>
              \A v \in ViewsOf(p) :
                  /\ v.isInsured = employee[v.employeeId].isInsured
                  /\ v.dailyWage * employee[v.employeeId].workingDays
                         = Lira(employee[v.employeeId].salary)
                  /\ v.earnedSalary = RefEarned(CurrentArguments(v))
                  /\ v.totalReceivable = RefEarned(CurrentArguments(v)) + v.overtime50
                                             + v.overtime100 - v.advance - v.officialAdvance
                  /\ v.officialPayment = RefOfficialPayment(CurrentArguments(v))
                  /\ v.cashPayment = RefCashPayment(CurrentArguments(v))

\* C17, its case: a view of an entry written while its employee was insured
\* (its stored officialPayment is positive), returned after an edit made the
\* employee non-insured.
C17_ViewAfterEmployeeEdit ==
    \E p \in Procs :
        /\ pc[p] = "done" /\ loc[p].op \in {"getPayrollByMonth", "getPayrollById"}
        /\ Succeeded(p) /\ edits > 0
        /\ \E v \in ViewsOf(p) :
              /\ RowOf(v.id) \in loc[p].pre.payrollEntry
              /\ RowOf(v.id).officialPayment > 0
              /\ ~v.isInsured /\ v.officialPayment = 0

-----------------------------------------------------------------------------
(* Update, then get *)

\* the response of getPayrollById(id) served on the store as it is now
GetNow(id) == RunHandler(getPayrollByIdCall(Store, id)).resp

SavedFields == {"daysWorked", "advance", "overtime50", "overtime100", "officialPayment", "cashPayment"}

-----------------------------------------------------------------------------
(* Ranges of the stored entries *)

\* C19: in every reachable state every stored PayrollEntry has month in 1..12,
\* year in 2000..2100, daysWorked in 0..31 and sortOrder >= 0, whichever of
\* getPayrollByMonth, updatePayroll, batchUpdatePayroll and createOvertimeEntry
\* wrote it; getPayrollByMonth with a month outside 1..12 answers 400
\* INVALID_MONTH, with a year outside 2000..2100 (and a month inside) 400
\* INVALID_YEAR, and creates nothing.
C19_StoredEntriesInRange ==
    /\ \A r \in payrollEntry :
          /\ r.month \in 1..12
          /\ r.year \in 2000..2100
          /\ r.daysWorked \in 0..31
          /\ r.sortOrder \in Nat
    /\ \A p \in Procs :
          Done(p, "getPayrollByMonth") =>
              /\ loc[p].month \notin 1..12 =>
                    resp[p] = Fail(400, "INVALID_MONTH") /\ TablesUntouched(p)
              /\ loc[p].month \in 1..12 /\ loc[p].year \notin 2000..2100 =>
                    resp[p] = Fail(400, "INVALID_YEAR") /\ TablesUntouched(p)

\* C19, its case: a getPayrollByMonth for month 13 or a year after 2100 was
\* refused while entries written by an update or an overtime entry are stored.
C19_RefusedPeriod ==
    \E p \in Procs :
        /\ Done(p, "getPayrollByMonth")
        /\ loc[p].month > 12 \/ loc[p].year > 2100
        /\ resp[p].status = 400
        /\ \E r \in payrollEntry : r.daysWorked # employee[r.employeeId].workingDays
                                     \/ r.overtime50 > 0

-----------------------------------------------------------------------------
(* Concurrent writers of one PayrollEntry *)

RowWriterOps == {"updatePayroll", "createOvertimeEntry", "deleteOvertimeEntry"}

\* the request with locals l, as it arrives at store st
CallOf(l, st) ==
    CASE l.op = "updatePayroll" -> updatePayrollCall(st, l.id, l.input)
      [] l.op = "createOvertimeEntry" -> createOvertimeEntryCall(st, l.input)
      [] l.op = "deleteOvertimeEntry" -> deleteOvertimeEntryCall(st, l.id)

\* the PayrollEntry the request with locals l writes, among rows
RowWritten(l, rows) ==
    CASE l.op = "updatePayroll" -> EntryById(rows, l.id)
      [] l.op = "createOvertimeEntry" ->
            EntriesOf(rows, l.input.employeeId, l.input.month, l.input.year)
      [] l.op = "deleteOvertimeEntry" ->
            UNION {EntriesOf(rows, o.employeeId, o.month, o.year) : o \in l.entry}

\* the PayrollEntry table after the request of slot a and then that of slot b,
\* one after the other, on the store both found
SerialRun(a, b) ==
    RunHandler(CallOf(loc[b], RunHandler(CallOf(loc[a], loc[a].pre)).st)).st.payrollEntry

\* C20: when an updatePayroll and another writer of the same PayrollEntry
\* (updatePayroll, createOvertimeEntry or deleteOvertimeEntry) that arrived on
\* the same store have both succeeded, the PayrollEntry table is the one that one
\* of the two serial executions of the two requests leaves.
C20_ConcurrentWritersSerializable ==
    \A p, q \in Procs :
        /\ p # q
        /\ Done(p, "updatePayroll") /\ Succeeded(p)
        /\ pc[q] = "done" /\ loc[q].op \in RowWriterOps /\ Succeeded(q)
        /\ loc[p].pre = loc[q].pre
        /\ RowWritten(loc[q], loc[q].pre.payrollEntry) = EntryById(loc[p].pre.payrollEntry, loc[p].id)
        => payrollEntry \in {SerialRun(p, q), SerialRun(q, p)}

-----------------------------------------------------------------------------
(* Single update and one-item batch *)

\* the one-item batch that carries the fields of the update in slot p, served on
\* the store the update found
AsBatch(p) ==
    LET old == CHOOSE x \in loc[p].pre.payrollEntry : x.id = loc[p].id
    IN  RunHandler(batchUpdatePayrollCall(loc[p].pre,
            <<[employeeId |-> old.employeeId, month |-> old.month, year |-> old.year,
               fields |-> loc[p].input]>>))

\* C21: a successful updatePayroll(id, fields) leaves the PayrollEntry table and
\* returns the view that a one-item batchUpdatePayroll with the entry's
\* (employeeId, month, year) and the same fields leaves and returns from the same
\* state.
C21_UpdateAndBatchAgree ==
    \A p \in Procs :
        Done(p, "updatePayroll") /\ Succeeded(p) =>
            /\ AsBatch(p).resp = resp[p]
            /\ AsBatch(p).st.payrollEntry = payrollEntry

-----------------------------------------------------------------------------
(* The batch that meets a missing employee *)

\* the indices of the items whose employee is missing in the store the batch found
MissingAt(p) ==
    {i \in 1..Len(loc[p].items) : loc[p].items[i].employeeId \notin DOMAIN loc[p].pre.employee}

\* the first of them
FirstMissing(p) == CHOOSE k \in MissingAt(p) : \A i \in MissingAt(p) : k <= i

\* the batch made of the items before the first missing one, served on the store
\* the batch found
PrefixRun(p) ==
    RunHandler(batchUpdatePayrollCall(loc[p].pre, SubSeq(loc[p].items, 1, FirstMissing(p) - 1)))

-----------------------------------------------------------------------------
(* Stored split *)

\* C23: as long as no employee has been edited, in every reachable state the
\* stored officialPayment and cashPayment of every PayrollEntry are the outputs of
\* the split for its stored daysWorked, overtime50, overtime100, advance and
\* officialAdvance and the employee's salary, workingDays and isInsured.
C23_StoredSplitNeverDrifts ==
    edits = 0 =>
        \A r \in payrollEntry :
            /\ r.officialPayment = SplitOf(r, employee[r.employeeId]).officialPayment
            /\ r.cashPayment = SplitOf(r, employee[r.employeeId]).cashPayment

-----------------------------------------------------------------------------
(* The two channels and the total *)

\* C24: in every view returned by getPayrollByMonth, getPayrollById,
\* updatePayroll and batchUpdatePayroll, officialPayment + cashPayment equals
\* totalReceivable, and totalReceivable is >= 0.
C24_ChannelsAddUpToTotal ==
    \A p \in Procs :
        pc[p] = "done" /\ loc[p].op \in PayrollViewOps /\ Succeeded(p) =>
            \A v \in ViewsOf(p) :
                /\ v.officialPayment + v.cashPayment = v.totalReceivable
                /\ v.totalReceivable >= 0

-----------------------------------------------------------------------------
(* Reads that fail *)

\* the response of getPayrollByMonth(month, year) served on the store as it is now
ListNow(month, year) == RunHandler(getPayrollByMonthCall(Store, month, year)).resp

\* C25: in every state reached by requests served one after the other,
\* getPayrollByMonth succeeds for every valid period and getPayrollById for every
\* stored id.
C25_ReadsNeverFail ==
    /\ \A period \in ValidPeriods : ListNow(period[1], period[2]).code = "OK"
    /\ \A r \in payrollEntry : GetNow(r.id).code = "OK"

\* C26: when requests run concurrently, the createMany of getPayrollByMonth is never
\* rejected by the unique index on (employeeId, month, year): the step always goes
\* on to the final findMany, so the request is not failed by a row that another
\* request created after its own findMany.
C26_CreateManyNeverRejected ==
    [][\A p \in Procs : pc[p] = "gpm_create" /\ pc'[p] # "gpm_create" => pc'[p] = "gpm_final"]_vars

-----------------------------------------------------------------------------
(* Audit records *)

\* C27: the audit log changes only in the step that answers a mutation request
\* (PUT, POST or DELETE behind auditLogMiddleware) with a status below 400, and
\* then by exactly one record, the only one of that request; a request answered
\* with a status of 400 or more, and a GET, leave the log as it was.
C27_RecordOnlyForSuccessfulMutation ==
    [][auditLog' # auditLog =>
          \E p \in Procs :
              /\ pc[p] = "done" /\ pc'[p] = "idle"
              /\ loc[p].op \in AuditedOps
              /\ resp[p].status < 400
              /\ auditLog' = Append(auditLog, AuditRecord(loc[p], resp[p], ops + edits))
              /\ \A i \in 1..Len(auditLog) : auditLog[i].request # ops + edits]_vars

\* C27, its case: after a mutation that was recorded, a second mutation was
\* answered with an error and no record of it exists.
C27_FailedMutationWithoutRecord ==
    \E p \in Procs :
        /\ pc[p] = "idle" /\ loc[p].op \in AuditedOps
        /\ resp[p].code \in {"VALIDATION_ERROR", "PAYROLL_NOT_FOUND", "OVERTIME_NOT_FOUND",
                             "EMPLOYEE_NOT_FOUND", "INTERNAL_ERROR"}
        /\ resp[p].status >= 400
        /\ auditLog # << >>
        /\ RecordsOfLast = {}

-----------------------------------------------------------------------------
(* Defaults of a created entry *)

\* the rows the request of p inserted
CreatedBy(p) == {r \in payrollEntry : \A old \in loc[p].pre.payrollEntry : old.id # r.id}

\* no item of the batch for the period of row r supplies daysWorked
NoDaysWorkedFor(p, r) ==
    \A i \in 1..Len(loc[p].items) :
        LET item == loc[p].items[i]
        IN  item.employeeId = r.employeeId /\ item.month = r.month /\ item.year = r.year
                => ~Has(item.fields, "daysWorked")

\* C28: an entry that a batchUpdatePayroll creates from items without daysWorked
\* has daysWorked = employee.workingDays, the default of the entries that
\* getPayrollByMonth and createOvertimeEntry create.
C28_BatchCreateDefaultsDaysWorked ==
    \A p \in Procs :
        Done(p, "batchUpdatePayroll") =>
            \A r \in CreatedBy(p) :
                NoDaysWorkedFor(p, r) => r.daysWorked = employee[r.employeeId].workingDays

-----------------------------------------------------------------------------
(* getPayrollByMonth: inserts only, idempotent, ordered *)

\* getPayrollByMonth of the period of p's request, served again on the store as it is now
ListAgain(p) == RunHandler(getPayrollByMonthCall(Store, loc[p].month, loc[p].year))

\* the views are in the order sortOrder asc, then employee.fullName asc
ViewsInOrder(views) ==
    \A i, j \in 1..Len(views) :
        i < j =>
            \/ views[i].sortOrder < views[j].sortOrder
            \/ /\ views[i].sortOrder = views[j].sortOrder
               /\ employee[views[i].employeeId].fullName <= employee[views[j].employeeId].fullName

\* C29: a finished getPayrollByMonth has kept every payroll row and every
\* overtime entry as they were, has inserted nothing but one zero-valued row for
\* each active employee that had none for the period, returns its views ordered by
\* sortOrder and then by employee name, and a second call for the same period
\* right after it inserts nothing and returns the same list.
C29_GetInsertsOnlyAndIsIdempotent ==
    \A p \in Procs :
        Done(p, "getPayrollByMonth") =>
            /\ loc[p].pre.payrollEntry \subseteq payrollEntry
            /\ overtimeEntry = loc[p].pre.overtimeEntry
            /\ employee = loc[p].pre.employee
            /\ \A r \in CreatedBy(p) :
                  /\ r.employeeId \in ActiveEmployeeIds(employee, loc[p].month, loc[p].year)
                  /\ EntriesOf(loc[p].pre.payrollEntry, r.employeeId, r.month, r.year) = {}
                  /\ r = NewEntry(r.id, r.employeeId, loc[p].month, loc[p].year,
                                  employee[r.employeeId].workingDays)
            /\ Succeeded(p) =>
                  /\ \A e \in ActiveEmployeeIds(employee, loc[p].month, loc[p].year) :
                        \E i \in 1..Len(resp[p].views) : resp[p].views[i].employeeId = e
                  /\ ViewsInOrder(resp[p].views)
            /\ ListAgain(p).st.payrollEntry = payrollEntry
            /\ ListAgain(p).st.overtimeEntry = overtimeEntry
            /\ ListAgain(p).resp = resp[p]

\* C29, its case: a listing found one row of the period, inserted the row of the
\* other active employee, and returned the inserted row first because the older
\* row has the higher sortOrder, although its employee's name comes first.
C29_ListingInsertedAndOrdered ==
    \E p \in Procs :
        /\ Done(p, "getPayrollByMonth") /\ Succeeded(p)
        /\ EntriesOfPeriod(loc[p].pre.payrollEntry, loc[p].month, loc[p].year) # {}
        /\ CreatedBy(p) # {}
        /\ Len(resp[p].views) = 2
        /\ resp[p].views[1].sortOrder < resp[p].views[2].sortOrder
        /\ employee[resp[p].views[1].employeeId].fullName
               > employee[resp[p].views[2].employeeId].fullName
        /\ \E r \in CreatedBy(p) : r.id = resp[p].views[1].id

-----------------------------------------------------------------------------
(* createOvertimeEntry, then deleteOvertimeEntry of the created entry *)

\* deleteOvertimeEntry of the entry that p's createOvertimeEntry returned, served
\* on the store as it is now
DeleteCreated(p) == RunHandler(deleteOvertimeEntryCall(Store, resp[p].views[1].id))

\* the payroll rows of the period of p's createOvertimeEntry before the request
PeriodRowBefore(p) ==
    EntriesOf(loc[p].pre.payrollEntry, loc[p].input.employeeId, loc[p].input.month, loc[p].input.year)

====
